---------------------------- MODULE Spec2Model ----------------------------
(***************************************************************************)
(* A model of src/tables.rs: the two reporting tables RatioTable and       *)
(* StepIncrTable, their push / sort / raw_list operations and              *)
(* RatioTable::print_entries.                                              *)
(*                                                                         *)
(* f64 values are modelled as fixed-point numbers: a finite value is the   *)
(* number of ten-thousandths (1.8363 is 18363), a natural number, and NaN  *)
(* is a value outside the naturals on which every comparison is unordered. *)
(***************************************************************************)
EXTENDS Integers, Sequences, FiniteSets, TLC

(***************************************************************************)
(* Bounds of the model.                                                    *)
(***************************************************************************)
\* The most entries pushed to a RatioTable.
MaxRatioEntries == 3
\* The most entries pushed to a StepIncrTable.
MaxStepEntries == 2
\* The most steps a StepIncrTable holds, all its entries together.
MaxSteps == 3

(***************************************************************************)
(* f64: values, partial_cmp and Display.                                   *)
(***************************************************************************)
NaN == -1

is_nan(x) == x = NaN

\* f64::partial_cmp: None as soon as one side is NaN.
partial_cmp(a, b) ==
    IF is_nan(a) \/ is_nan(b) THEN "None"
    ELSE IF a < b THEN "Less"
    ELSE IF a > b THEN "Greater"
    ELSE "Equal"

\* Option::unwrap_or
unwrap_or(o, default) == IF o = "None" THEN default ELSE o

Digit(d) == <<"0", "1", "2", "3", "4", "5", "6", "7", "8", "9">>[d + 1]

RECURSIVE DisplayNat(_)
DisplayNat(n) == IF n < 10 THEN Digit(n) ELSE DisplayNat(n \div 10) \o Digit(n % 10)

\* The fractional digits of k ten-thousandths, trailing zeros dropped
\* (width is the number of digits still to print).
RECURSIVE DisplayFrac(_, _)
DisplayFrac(k, w) ==
    IF k = 0 THEN ""
    ELSE LET unit == 10 ^ (w - 1)
         IN  Digit(k \div unit) \o DisplayFrac(k % unit, w - 1)

\* <f64 as Display>::fmt, as used by "{}": shortest text that reads back.
DisplayF64(x) ==
    IF is_nan(x) THEN "NaN"
    ELSE IF x % 10000 = 0 THEN DisplayNat(x \div 10000)
    ELSE DisplayNat(x \div 10000) \o "." \o DisplayFrac(x % 10000, 4)

(***************************************************************************)
(* The entries callers push.                                               *)
(***************************************************************************)
RatioTableEntry(p, x, et, st, r, pc) ==
    [pallet |-> p, extrinsic |-> x, avg_extrinsic_time |-> et,
     avg_storage_root_time |-> st, ratio |-> r, percentage |-> pc]

RatioEntries ==
    { RatioTableEntry("identity", "add_registrar", 10000, 0, 10000, 0),
      RatioTableEntry("treasury", "tip_new", 18363, 5000, 18363, 836271),
      RatioTableEntry("balances", "transfer", 24501, 20000, 24501, 1450108),
      RatioTableEntry("system", "remark", 30000, 30000, 10000, 1),
      RatioTableEntry("utility", "batch", 0, 0, NaN, NaN),
      RatioTableEntry("elections_phragmen", "submit_candidacy",
                      12345678, 7, 18363, 1234567891) }

StepRepeatIncr(iv, et, st, ep, sp) ==
    [input_vars |-> iv, avg_extrinsic_time |-> et, avg_storage_root_time |-> st,
     extrinsic_percentage |-> ep, storage_root_percentage |-> sp]

Steps ==
    { StepRepeatIncr(<<892, 1000>>, 1941264, 907574, 84298, 292032),
      StepRepeatIncr(<<298, 1000>>, 1904196, 873887, 63594, 244075),
      StepRepeatIncr(<<397, 1000>>, 1874513, 798260, 63594, 136412),
      StepRepeatIncr(<<1>>, 0, 0, NaN, NaN) }

StepIncrTableEntry(p, x, ss) == [pallet |-> p, extrinsic |-> x, steps |-> ss]

SeqsUpTo(S, n) == UNION { [1..k -> S] : k \in 0..n }

Names == { <<"balances", "transfer">>, <<"treasury", "tip_new">> }

StepEntries(n) ==
    { StepIncrTableEntry(nm[1], nm[2], ss) : nm \in Names, ss \in SeqsUpTo(Steps, n) }

(***************************************************************************)
(* slice::sort_by on the short slices of the model: the standard library   *)
(* sorts a slice of at most 20 elements by insertion, moving an element    *)
(* left while the comparison says it is Less than its left neighbour.      *)
(***************************************************************************)
\* Mutant: the arguments of the comparison the wrong way round.
ratio_closure_swapped(a, b) == unwrap_or(partial_cmp(b.ratio, a.ratio), "Equal")

\* The closure sort_by_ratio hands to sort_by.
ratio_closure(a, b) == unwrap_or(partial_cmp(a.ratio, b.ratio), "Equal")

\* Mutant: a before b, which sorts ascending.
percentage_closure_ascending(a, b) ==
    unwrap_or(partial_cmp(a.extrinsic_percentage, b.extrinsic_percentage), "Equal")

\* The closure sort_by_extrinsic_percentage hands to sort_by (b before a).
percentage_closure(a, b) ==
    unwrap_or(partial_cmp(b.extrinsic_percentage, a.extrinsic_percentage), "Equal")

compare(by, a, b) ==
    IF by = "ratio" THEN ratio_closure(a, b) ELSE percentage_closure(a, b)

\* Mutant: Equal counts as Less, so equal keys change places.
is_less_or_equal(by, a, b) == compare(by, a, b) # "Greater"

is_less(by, a, b) == compare(by, a, b) = "Less"

\* Mutant: the element x moves past is overwritten instead of shifted.
insert_tail_overwriting(by, s, x) ==
    LET pos[j \in 0..Len(s)] ==
            IF j = 0 THEN 0
            ELSE IF is_less(by, x, s[j]) THEN pos[j - 1] ELSE j
        k == pos[Len(s)]
    IN  SubSeq(s, 1, k) \o <<x>> \o SubSeq(s, k + 2, Len(s))

\* Insert x at the tail of the sorted prefix s.
insert_tail(by, s, x) ==
    LET pos[j \in 0..Len(s)] ==
            IF j = 0 THEN 0
            ELSE IF is_less(by, x, s[j]) THEN pos[j - 1] ELSE j
        k == pos[Len(s)]
    IN  SubSeq(s, 1, k) \o <<x>> \o SubSeq(s, k + 1, Len(s))

sort_by(by, v) ==
    LET sorted_prefix[i \in 0..Len(v)] ==
            IF i = 0 THEN <<>> ELSE insert_tail(by, sorted_prefix[i - 1], v[i])
    IN  sorted_prefix[Len(v)]

(***************************************************************************)
(* The state: one table (self), and what the last call returned and wrote. *)
(* The two tables share nothing, so a behaviour follows one table, of      *)
(* either type.                                                            *)
(***************************************************************************)
VARIABLES
    kind,     \* "RatioTable" or "StepIncrTable": the type of self
    inner,    \* self.inner
    pushed,   \* history: the entries pushed so far, in call order
    sorted,   \* history: whether a sort has been called
    lastOp,   \* the last method called on self
    sortRun,  \* history: how many sort calls were made in a row just now (2: two or more)
    ret,      \* the value the last call returned (<<>> for unit)
    stdout    \* the lines the last call wrote to standard output

vars == <<kind, inner, pushed, sorted, lastOp, sortRun, ret, stdout>>

Init ==
    /\ kind \in {"RatioTable", "StepIncrTable"}
    /\ inner = <<>>
    /\ pushed = <<>>
    /\ sorted = FALSE
    /\ lastOp = "new"
    /\ sortRun = 0
    /\ ret = <<>>
    /\ stdout = <<>>

(***************************************************************************)
(* std::fmt padding: width is a minimum, a longer text is written whole.   *)
(***************************************************************************)
width == 14

RECURSIVE repeat(_, _)
repeat(c, n) == IF n <= 0 THEN "" ELSE c \o repeat(c, n - 1)

\* "{:<w$}" with fill c: the text, then the fill.
pad_left_aligned(s, w, c) == s \o repeat(c, w - Len(s))

\* "{:>w$}": the fill, then the text.
pad_right_aligned(s, w, c) == repeat(c, w - Len(s)) \o s

\* Mutant: the odd fill character goes to the left.
pad_centered_left_heavy(s, w, c) ==
    LET padding == IF Len(s) >= w THEN 0 ELSE w - Len(s)
    IN  repeat(c, padding - padding \div 2) \o s \o repeat(c, padding \div 2)

\* "{:^w$}": the odd fill character goes to the right.
pad_centered(s, w, c) ==
    LET padding == IF Len(s) >= w THEN 0 ELSE w - Len(s)
    IN  repeat(c, padding \div 2) \o s \o repeat(c, padding - padding \div 2)

join_columns(cols) == "|" \o cols[1] \o "|" \o cols[2] \o "|" \o cols[3] \o "|" \o cols[4] \o "|"

header_columns ==
    << pad_centered("Pallet", width, " "), pad_centered("Extrinsic", width, " "),
       pad_centered("Ratio", width, " "), pad_centered("Increase", width, " ") >>

separator_columns == [k \in 1..4 |-> pad_left_aligned("", width, "-")]

\* The four columns of a body row; the last is "{:>12} %".
body_columns(entry) ==
    << pad_left_aligned(entry.pallet, width, " "),
       pad_left_aligned(entry.extrinsic, width, " "),
       pad_left_aligned(DisplayF64(entry.ratio), width, " "),
       pad_right_aligned(DisplayF64(entry.percentage), width - 2, " ") \o " %" >>

print_lines(v) ==
    << join_columns(header_columns), join_columns(separator_columns) >>
    \o [i \in 1..Len(v) |-> join_columns(body_columns(v[i]))]

(***************************************************************************)
(* RatioTable                                                              *)
(***************************************************************************)
\* Mutant: the entry goes to the front.
vec_push_front(v, entry) == <<entry>> \o v

vec_push(v, entry) == Append(v, entry)

\* Mutant: the two timings change places.
ratio_tuple_swapped(e) ==
    << e.pallet, e.extrinsic, e.avg_storage_root_time, e.avg_extrinsic_time,
       e.ratio, e.percentage >>

ratio_tuple(e) ==
    << e.pallet, e.extrinsic, e.avg_extrinsic_time, e.avg_storage_root_time,
       e.ratio, e.percentage >>

ratio_raw_list(v) == [i \in 1..Len(v) |-> ratio_tuple(v[i])]

RatioPush(entry) ==
    /\ kind = "RatioTable"
    /\ Len(inner) < MaxRatioEntries
    /\ inner' = vec_push(inner, entry)
    /\ pushed' = Append(pushed, entry)
    /\ lastOp' = "push"
    /\ sortRun' = 0
    /\ ret' = <<>>
    /\ stdout' = <<>>
    /\ UNCHANGED <<kind, sorted>>

SortByRatio ==
    /\ kind = "RatioTable"
    /\ inner' = sort_by("ratio", inner)
    /\ sorted' = TRUE
    /\ lastOp' = "sort"
    /\ sortRun' = IF sortRun = 0 THEN 1 ELSE 2
    /\ ret' = <<>>
    /\ stdout' = <<>>
    /\ UNCHANGED <<kind, pushed>>

RatioRawList ==
    /\ kind = "RatioTable"
    /\ ret' = ratio_raw_list(inner)
    /\ lastOp' = "raw_list"
    /\ sortRun' = 0
    /\ stdout' = <<>>
    /\ UNCHANGED <<kind, inner, pushed, sorted>>

PrintEntries ==
    /\ kind = "RatioTable"
    /\ stdout' = print_lines(inner)
    /\ lastOp' = "print_entries"
    /\ sortRun' = 0
    /\ ret' = <<>>
    /\ UNCHANGED <<kind, inner, pushed, sorted>>

(***************************************************************************)
(* StepIncrTable                                                           *)
(***************************************************************************)
RECURSIVE total_steps(_)
total_steps(v) == IF v = <<>> THEN 0 ELSE Len(Head(v).steps) + total_steps(Tail(v))

sort_steps(entry) == [entry EXCEPT !.steps = sort_by("percentage", entry.steps)]

sort_by_extrinsic_percentage(v) == [i \in 1..Len(v) |-> sort_steps(v[i])]

step_tuple(e, s) ==
    << e.pallet, e.extrinsic, s.input_vars, s.avg_extrinsic_time,
       s.avg_storage_root_time, s.extrinsic_percentage, s.storage_root_percentage >>

entry_tuples(e) == [j \in 1..Len(e.steps) |-> step_tuple(e, e.steps[j])]

\* Mutant: the later entries' tuples come first.
RECURSIVE flatten_reversed(_)
flatten_reversed(vs) ==
    IF vs = <<>> THEN <<>> ELSE flatten_reversed(Tail(vs)) \o Head(vs)

RECURSIVE flatten(_)
flatten(vs) == IF vs = <<>> THEN <<>> ELSE Head(vs) \o flatten(Tail(vs))

step_raw_list(v) == flatten([i \in 1..Len(v) |-> entry_tuples(v[i])])

StepPush(entry) ==
    /\ kind = "StepIncrTable"
    /\ Len(inner) < MaxStepEntries
    /\ total_steps(inner) + Len(entry.steps) <= MaxSteps
    /\ inner' = vec_push(inner, entry)
    /\ pushed' = Append(pushed, entry)
    /\ lastOp' = "push"
    /\ sortRun' = 0
    /\ ret' = <<>>
    /\ stdout' = <<>>
    /\ UNCHANGED <<kind, sorted>>

SortByExtrinsicPercentage ==
    /\ kind = "StepIncrTable"
    /\ inner' = sort_by_extrinsic_percentage(inner)
    /\ sorted' = TRUE
    /\ lastOp' = "sort"
    /\ sortRun' = IF sortRun = 0 THEN 1 ELSE 2
    /\ ret' = <<>>
    /\ stdout' = <<>>
    /\ UNCHANGED <<kind, pushed>>

StepRawList ==
    /\ kind = "StepIncrTable"
    /\ ret' = step_raw_list(inner)
    /\ lastOp' = "raw_list"
    /\ sortRun' = 0
    /\ stdout' = <<>>
    /\ UNCHANGED <<kind, inner, pushed, sorted>>

Next ==
    \/ \E entry \in RatioEntries : RatioPush(entry)
    \/ SortByRatio
    \/ RatioRawList
    \/ PrintEntries
    \/ \E entry \in StepEntries(MaxSteps) : StepPush(entry)
    \/ SortByExtrinsicPercentage
    \/ StepRawList

Spec == Init /\ [][Next]_vars

(***************************************************************************)
(* Vocabulary of the properties.                                           *)
(***************************************************************************)
\* The IEEE comparisons a <= b and a >= b: false when either side is NaN.
f64_le(a, b) == ~is_nan(a) /\ ~is_nan(b) /\ a <= b
f64_ge(a, b) == ~is_nan(a) /\ ~is_nan(b) /\ a >= b

IsRatio == kind = "RatioTable"
IsStep == kind = "StepIncrTable"

Range(v) == { v[i] : i \in DOMAIN v }

\* How many times each element occurs in v.
Occurrences(v) == [x \in Range(v) |-> Cardinality({ i \in DOMAIN v : v[i] = x })]

\* The number of steps of the entries before entry i.
StepsBefore(v, i) == total_steps(SubSeq(v, 1, i - 1))

\* The pallet and extrinsic of each entry, in table order.
EntryNames(v) == [i \in DOMAIN v |-> <<v[i].pallet, v[i].extrinsic>>]

HasNaNKey(v) ==
    IF IsRatio THEN \E i \in DOMAIN v : is_nan(v[i].ratio)
    ELSE \E i \in DOMAIN v : \E j \in DOMAIN v[i].steps :
             is_nan(v[i].steps[j].extrinsic_percentage)

\* What raw_list() returns on a table holding v.
RawList(v) == IF IsRatio THEN ratio_raw_list(v) ELSE step_raw_list(v)

(***************************************************************************)
(* C1: on a table that was only constructed and pushed to (no sort call),  *)
(* raw_list() returns the tuples of the pushed entries in the order of the *)
(* push calls; for a StepIncrTable the entries in push order and each      *)
(* entry's steps in the order they were supplied.                          *)
(***************************************************************************)
C1_PushOrderPreserved ==
    (lastOp = "raw_list" /\ ~sorted) =>
        IF IsRatio
        THEN /\ Len(ret) = Len(pushed)
             /\ \A i \in DOMAIN pushed :
                    /\ ret[i][1] = pushed[i].pallet
                    /\ ret[i][2] = pushed[i].extrinsic
                    /\ ret[i][5] = pushed[i].ratio
        ELSE /\ Len(ret) = total_steps(pushed)
             /\ \A i \in DOMAIN pushed : \A j \in DOMAIN pushed[i].steps :
                    LET t == ret[StepsBefore(pushed, i) + j]
                    IN  /\ t[1] = pushed[i].pallet
                        /\ t[2] = pushed[i].extrinsic
                        /\ t[3] = pushed[i].steps[j].input_vars
                        /\ t[6] = pushed[i].steps[j].extrinsic_percentage

\* Two different entries with steps were pushed to a StepIncrTable, the first
\* entry's steps not in descending order, and raw_list was called.
C1_Witness ==
    /\ IsStep /\ lastOp = "raw_list" /\ ~sorted
    /\ Len(pushed) = 2
    /\ pushed[1].pallet # pushed[2].pallet
    /\ Len(pushed[1].steps) = 2 /\ Len(pushed[2].steps) = 1
    /\ partial_cmp(pushed[1].steps[1].extrinsic_percentage,
                   pushed[1].steps[2].extrinsic_percentage) = "Less"

C4_SortIdempotent ==
    [][(lastOp = "sort" /\ lastOp' = "sort" /\ ~HasNaNKey(inner)) =>
          RawList(inner') = RawList(inner)]_vars

\* Two sort_by_ratio calls in a row on a table without NaN in which two
\* different entries have the same ratio and which the sort had to reorder.
C4_Witness ==
    /\ IsRatio /\ sortRun = 2
    /\ ~HasNaNKey(inner)
    /\ inner # pushed
    /\ \E i, j \in DOMAIN inner :
           i # j /\ inner[i] # inner[j] /\ inner[i].ratio = inner[j].ratio

C6_FlattenEntryMajor ==
    (IsStep /\ lastOp = "raw_list") =>
        /\ Len(ret) = total_steps(inner)
        /\ (inner = <<>> => ret = <<>>)
        /\ \A i \in DOMAIN inner : \A j \in DOMAIN inner[i].steps :
               ret[StepsBefore(inner, i) + j] = step_tuple(inner[i], inner[i].steps[j])

\* raw_list on a table whose first entry has no steps and whose second entry
\* has two different steps.
C6_Witness ==
    /\ IsStep /\ lastOp = "raw_list"
    /\ Len(inner) = 2
    /\ Len(inner[1].steps) = 0
    /\ Len(inner[2].steps) = 2
    /\ inner[2].steps[1] # inner[2].steps[2]
    /\ Len(ret) = 2

(***************************************************************************)
(* C7 as stated: print_entries writes the header row                       *)
(* |    Pallet    |  Extrinsic  |    Ratio     |   Increase   | (two       *)
(* spaces after Extrinsic), then the separator of four groups of 14        *)
(* dashes, then one body row per entry in table order.                     *)
(***************************************************************************)
C7_Original ==
    (lastOp = "print_entries") =>
        /\ Len(stdout) = 2 + Len(inner)
        /\ stdout[1] = "|    Pallet    |  Extrinsic  |    Ratio     |   Increase   |"
        /\ stdout[2] = "|--------------|--------------|--------------|--------------|"
        /\ \A i \in DOMAIN inner : stdout[2 + i] = join_columns(body_columns(inner[i]))

(***************************************************************************)
(* C7 amended: print_entries writes the header row                         *)
(* |    Pallet    |  Extrinsic   |    Ratio     |   Increase   | (each     *)
(* name centred in 14 characters, the odd space to the right: three spaces *)
(* after Extrinsic), then the separator of four groups of 14 dashes, then  *)
(* one body row per entry in table order.                                  *)
(***************************************************************************)
C7_HeaderSeparatorRows ==
    (lastOp = "print_entries") =>
        /\ Len(stdout) = 2 + Len(inner)
        /\ stdout[1] = "|    Pallet    |  Extrinsic   |    Ratio     |   Increase   |"
        /\ stdout[2] = "|--------------|--------------|--------------|--------------|"
        /\ \A i \in DOMAIN inner : stdout[2 + i] = join_columns(body_columns(inner[i]))

\* print_entries has written a table of two different entries.
C7_Witness ==
    /\ lastOp = "print_entries"
    /\ Len(inner) = 2
    /\ inner[1] # inner[2]
    /\ Len(stdout) = 4

(***************************************************************************)
(* C8 as stated: whatever the length of the names and numbers, every body  *)
(* row print_entries writes has its four columns in fields of exactly 14   *)
(* characters, so every line written has the same length.                  *)
(***************************************************************************)
C8_FixedWidthColumns ==
    (lastOp = "print_entries") =>
        /\ \A i \in DOMAIN inner : \A k \in 1..4 :
               Len(body_columns(inner[i])[k]) = width
        /\ \A n \in DOMAIN stdout : Len(stdout[n]) = Len(stdout[1])

(***************************************************************************)
(* C9 as stated: the comparison the sorts use is a total preorder on the   *)
(* keys of the table, NaN included: swapping the arguments mirrors the     *)
(* answer, and Less, Greater and Equal are each transitive, on every       *)
(* slice a sort call has just sorted.                                      *)
(***************************************************************************)
SortDomains ==
    IF IsRatio THEN { Range(inner) }
    ELSE { Range(inner[i].steps) : i \in DOMAIN inner }

SortKey == IF IsRatio THEN "ratio" ELSE "percentage"

Mirror(o) == IF o = "Less" THEN "Greater" ELSE IF o = "Greater" THEN "Less" ELSE o

C9_ComparisonTotalPreorder ==
    (lastOp = "sort") =>
        \A D \in SortDomains : \A a, b, c \in D :
            /\ compare(SortKey, a, b) = Mirror(compare(SortKey, b, a))
            /\ (compare(SortKey, a, b) = compare(SortKey, b, c))
                   => compare(SortKey, a, c) = compare(SortKey, a, b)

(***************************************************************************)
(* C10: whatever was called, the table holds the entries that were pushed  *)
(* and nothing else: as many entries as push calls; a RatioTable holds the *)
(* pushed entries, each as often as it was pushed; a StepIncrTable holds   *)
(* at each position the pushed entry's pallet and extrinsic and exactly    *)
(* the steps it was pushed with, each as often.                            *)
(***************************************************************************)
C10_EntriesKept ==
    /\ Len(inner) = Len(pushed)
    /\ IsRatio => Occurrences(inner) = Occurrences(pushed)
    /\ IsStep => \A i \in DOMAIN pushed :
           /\ inner[i].pallet = pushed[i].pallet
           /\ inner[i].extrinsic = pushed[i].extrinsic
           /\ Occurrences(inner[i].steps) = Occurrences(pushed[i].steps)

\* Both entries of a StepIncrTable had their steps reordered by the sort,
\* and raw_list was called afterwards.
C10_Witness ==
    /\ IsStep /\ sorted /\ lastOp = "raw_list"
    /\ Len(inner) = 2
    /\ inner[1].steps # pushed[1].steps
    /\ Len(inner[2].steps) >= 1

=============================================================================
